---- MODULE Spec2Model ----
(***************************************************************************)
(* Outlier detection and handling of quick_EDA.py (outliers_z_score,       *)
(* outliers_IQR, handle_outliers) over an in-memory table.                 *)
(*                                                                         *)
(* Numbers are exact.  A number is <<p, q, r, d>> and stands for           *)
(* (p + q*sqrt(r)) / d with d > 0; a rational has q = 0 and r = 0.  The    *)
(* square root enters only through the standard deviation of the Z-score   *)
(* method.  NaN (a missing cell, or 0/0) is <<0, 0, 0, 0>>.                *)
(***************************************************************************)
EXTENDS Integers, Sequences, FiniteSets, TLC

----------------------------------------------------------------------------
(* Bounds of the model *)

\* largest integer cell value of a generated table
MaxVal == 2
\* largest number of freely chosen rows of a generated table
MaxFree == 4
\* number of further rows, all equal to the first row, of a padded table
Pad == 8
\* number of calls made on one table
MaxCalls == 1
\* number of times the same call is made in a row
MaxRepeat == 2

----------------------------------------------------------------------------
(* Exact arithmetic *)

Abs(x) == IF x < 0 THEN -x ELSE x

Sgn(x) == IF x < 0 THEN -1 ELSE IF x > 0 THEN 1 ELSE 0

RECURSIVE GCDNat(_, _)
GCDNat(x, y) == IF y = 0 THEN x ELSE GCDNat(y, x % y)

GCD(x, y) == GCDNat(Abs(x), Abs(y))

LCM(x, y) == (x * y) \div GCD(x, y)

\* floor of the square root of a natural number, by bisection of lo..hi
RECURSIVE ISqrtIn(_, _, _)
ISqrtIn(n, lo, hi) ==
  IF lo >= hi THEN lo
  ELSE LET mid == (lo + hi + 1) \div 2
       IN  IF mid * mid <= n THEN ISqrtIn(n, mid, hi) ELSE ISqrtIn(n, lo, mid - 1)

ISqrt(n) == ISqrtIn(n, 0, IF n < 46340 THEN n ELSE 46340)

NaN == <<0, 0, 0, 0>>

IsNaN(x) == x[4] = 0

\* p / d in lowest terms, g the greatest common divisor of p and d
NormRat(p, d, g) == <<Sgn(d) * (p \div g), 0, 0, Abs(d) \div g>>

\* (p + q*sqrt(r)) / d in lowest terms, g the greatest common divisor of p,
\* q and d
NormSurd(p, q, r, d, g) ==
  <<Sgn(d) * (p \div g), Sgn(d) * (q \div g), r, Abs(d) \div g>>

\* s is the floor of sqrt(r): a perfect square leaves the root
NormRoot(p, q, r, d, s) ==
  IF s * s = r THEN NormRat(p + q * s, d, GCD(p + q * s, d))
  ELSE NormSurd(p, q, r, d, GCD(GCD(p, q), d))

\* (p + q*sqrt(r)) / d in lowest terms
Norm(p, q, r, d) ==
  IF d = 0 THEN NaN
  ELSE IF q = 0 \/ r = 0 THEN NormRat(p, d, GCD(p, d))
  ELSE NormRoot(p, q, r, d, ISqrt(r))

Rat(n, d) == Norm(n, 0, 0, d)

Num(n) == <<n, 0, 0, 1>>

\* the radicand of a sum: both operands carry the same root or none
Rad(x, y) == IF x[2] # 0 THEN x[3] ELSE y[3]

\* x + y over the common denominator l
AddOver(x, y, l) ==
  Norm((l \div x[4]) * x[1] + (l \div y[4]) * y[1],
       (l \div x[4]) * x[2] + (l \div y[4]) * y[2], Rad(x, y), l)

Add(x, y) ==
  IF IsNaN(x) \/ IsNaN(y) THEN NaN ELSE AddOver(x, y, LCM(x[4], y[4]))

Neg(x) == IF IsNaN(x) THEN NaN ELSE <<-x[1], -x[2], x[3], x[4]>>

Sub(x, y) == Add(x, Neg(y))

\* x * (n / d) for integers n, d
Scale(x, n, d) ==
  IF IsNaN(x) \/ d = 0 THEN NaN ELSE Norm(n * x[1], n * x[2], x[3], d * x[4])

\* product of two numbers of which at most one carries a root, or of two
\* pure roots of the same radicand
Mul(x, y) ==
  IF IsNaN(x) \/ IsNaN(y) THEN NaN
  ELSE Norm(x[1] * y[1] + x[2] * y[2] * Rad(x, y),
            x[1] * y[2] + x[2] * y[1], Rad(x, y), x[4] * y[4])

\* 1 / y for a pure root y = q*sqrt(r)/d, which is d*sqrt(r) / (q*r)
InvRoot(y) == <<0, y[4], y[3], y[2] * y[3]>>

\* x / y; 0/0 is NaN, as in floating point (y never is zero otherwise)
Div(x, y) ==
  IF IsNaN(x) \/ IsNaN(y) THEN NaN
  ELSE IF y[1] = 0 /\ y[2] = 0 THEN NaN
  ELSE IF y[2] = 0 THEN Scale(x, y[4], y[1])
  ELSE Mul(x, InvRoot(y))

\* aq*k + m compared with aq*sqrt(r): the squares are compared without
\* forming the square of the left side
CmpRootAt(aq, r, k, m) ==
  IF k * k > r THEN 1
  ELSE IF (k + 1) * (k + 1) <= r THEN -1
  ELSE Sgn(2 * k * aq * m + m * m - aq * aq * (r - k * k))

\* |p| compared with |q|*sqrt(r) for q # 0: -1, 0 or 1
CmpRoot(p, q, r) == CmpRootAt(Abs(q), r, Abs(p) \div Abs(q), Abs(p) % Abs(q))

\* p and q have opposite signs; c compares |p| with |q|*sqrt(r)
SignMixed(p, q, c) == IF c = 1 THEN Sgn(p) ELSE IF c = -1 THEN Sgn(q) ELSE 0

SignPQ(p, q, r) ==
  IF q = 0 THEN Sgn(p)
  ELSE IF p = 0 THEN Sgn(q)
  ELSE IF Sgn(p) = Sgn(q) THEN Sgn(p)
  ELSE SignMixed(p, q, CmpRoot(p, q, r))

\* sign of p + q*sqrt(r), g the greatest common divisor of p and q
SignOver(p, q, r, g) == IF g = 0 THEN 0 ELSE SignPQ(p \div g, q \div g, r)

SignDiff(p, q, r) == SignOver(p, q, r, GCD(p, q))

\* sign of the numerator of x
Sign(x) == SignDiff(x[1], x[2], x[3])

\* sign of y - x over the common denominator l
CmpOver(x, y, l) ==
  SignDiff((l \div y[4]) * y[1] - (l \div x[4]) * x[1],
           (l \div y[4]) * y[2] - (l \div x[4]) * x[2], Rad(x, y))

Cmp(x, y) == CmpOver(x, y, LCM(x[4], y[4]))

\* comparisons of floating-point numbers: false when either side is NaN
Lt(x, y) == ~IsNaN(x) /\ ~IsNaN(y) /\ Cmp(x, y) = 1

Gt(x, y) == Lt(y, x)

Le(x, y) == ~IsNaN(x) /\ ~IsNaN(y) /\ Cmp(x, y) >= 0

Eq(x, y) == ~IsNaN(x) /\ ~IsNaN(y) /\ Cmp(x, y) = 0

AbsNum(x) == IF IsNaN(x) THEN NaN ELSE IF Sign(x) < 0 THEN Neg(x) ELSE x

----------------------------------------------------------------------------
(* The table: a sequence of rows; a row has a row identity (its index      *)
(* label) and one cell per column.                                         *)

Cols == <<"a", "b">>

ColSet == {Cols[i] : i \in 1..Len(Cols)}

Row(i, va, vb) == [id |-> i, v |-> [a |-> va, b |-> vb]]

Ids(t) == {t[i].id : i \in 1..Len(t)}

\* df[column]: the series of a column, entries <<index label, value>>
Series(t, column) == [i \in 1..Len(t) |-> [id |-> t[i].id, x |-> t[i].v[column]]]

\* the non-missing entries of a series (skipna)
Valid(s) == SelectSeq(s, LAMBDA e : ~IsNaN(e.x))

\* Series.sort_values: ascending by value, equal values keep their order
\* and missing values come last (na_position = 'last')
Before(x, y) == ~IsNaN(x) /\ (IsNaN(y) \/ Lt(x, y))

\* The place of entry i: the entries with a smaller value come before it,
\* and of the entries with its value those of the rows before it
RankIn(s, i) ==
  Cardinality({j \in 1..Len(s) :
                 Before(s[j].x, s[i].x) \/ (j < i /\ ~Before(s[i].x, s[j].x))}) + 1

\* the places of the entries lo..hi, by halves
RECURSIVE Ranks(_, _, _)
Ranks(s, lo, hi) ==
  IF lo > hi THEN <<>>
  ELSE IF lo = hi THEN <<RankIn(s, lo)>>
  ELSE Ranks(s, lo, (lo + hi) \div 2) \o Ranks(s, (lo + hi) \div 2 + 1, hi)

\* the entries that take the places lo..hi, by halves
RECURSIVE Arranged(_, _, _, _)
Arranged(s, ranks, lo, hi) ==
  IF lo > hi THEN <<>>
  ELSE IF lo = hi THEN <<s[CHOOSE i \in 1..Len(s) : ranks[i] = lo]>>
  ELSE Arranged(s, ranks, lo, (lo + hi) \div 2)
         \o Arranged(s, ranks, (lo + hi) \div 2 + 1, hi)

\* a series left in the order of its rows
sort_valuesNone(s) == s

sort_values(s) == Arranged(s, Ranks(s, 1, Len(s)), 1, Len(s))

\* Series.min / Series.max of a series without missing values
MinOf(s) ==
  s[CHOOSE i \in 1..Len(s) : \A j \in 1..Len(s) : Le(s[i].x, s[j].x)].x

MaxOf(s) ==
  s[CHOOSE i \in 1..Len(s) : \A j \in 1..Len(s) : Le(s[j].x, s[i].x)].x

\* NaN for a series without values
series_min(s) == IF Valid(s) = <<>> THEN NaN ELSE MinOf(Valid(s))

series_max(s) == IF Valid(s) = <<>> THEN NaN ELSE MaxOf(Valid(s))

----------------------------------------------------------------------------
(* Statistics *)

\* every value of the series is a rational or missing
AllRat(s) == \A i \in 1..Len(s) : s[i].x[2] = 0

\* the common denominator of the values of a series, by halves
RECURSIVE DenLCM(_)
DenLCM(s) ==
  IF s = <<>> THEN 1
  ELSE IF Len(s) = 1 THEN s[1].x[4]
  ELSE LCM(DenLCM(SubSeq(s, 1, Len(s) \div 2)),
           DenLCM(SubSeq(s, Len(s) \div 2 + 1, Len(s))))

\* the numerator of a rational value over the denominator D
Over(x, D) == x[1] * (D \div x[4])

\* the sums are taken by halves
RECURSIVE SumOver(_, _)
SumOver(s, D) ==
  IF s = <<>> THEN 0
  ELSE IF Len(s) = 1 THEN Over(s[1].x, D)
  ELSE SumOver(SubSeq(s, 1, Len(s) \div 2), D)
         + SumOver(SubSeq(s, Len(s) \div 2 + 1, Len(s)), D)

RECURSIVE SumSqOver(_, _)
SumSqOver(s, D) ==
  IF s = <<>> THEN 0
  ELSE IF Len(s) = 1 THEN Over(s[1].x, D) * Over(s[1].x, D)
  ELSE SumSqOver(SubSeq(s, 1, Len(s) \div 2), D)
         + SumSqOver(SubSeq(s, Len(s) \div 2 + 1, Len(s)), D)

\* the mean of the values vs, which have the common denominator D
MeanOver(vs, D) ==
  IF vs = <<>> THEN NaN ELSE Rat(SumOver(vs, D), Len(vs) * D)

\* numpy.mean of a series: the arithmetic mean of its non-missing values
np_mean(s) == MeanOver(Valid(s), DenLCM(Valid(s)))

\* the divisor of the sample variance (ddof = 1)
StdDivisorSample(n) == n - 1

\* the divisor of the variance: numpy.std has ddof = 0
StdDivisor(n) == n

\* sqrt(ss * nm) / (nm * D), s the floor of sqrt(nm): a perfect square nm
\* is taken out of the root
StdRoot(nm, D, ss, s) ==
  Norm(0, 1, IF s * s = nm THEN ss ELSE ss * nm,
       IF s * s = nm THEN s * D ELSE nm * D)

\* n values with the divisor m and ss = n*sum(x^2) - sum(x)^2 over D^2
StdOf(n, m, D, ss) ==
  IF n = 0 \/ m = 0 THEN NaN
  ELSE IF ss = 0 THEN Num(0)
  ELSE StdRoot(n * m, D, ss, ISqrt(n * m))

StdOver(vs, D) ==
  StdOf(Len(vs), StdDivisor(Len(vs)), D,
        Len(vs) * SumSqOver(vs, D) - SumOver(vs, D) * SumOver(vs, D))

\* numpy.std of a series: sqrt(sum((x - mean)^2) / n) over its non-missing
\* values, which is sqrt((n*sum(x^2) - sum(x)^2) * n / divisor) / n
np_std(s) == StdOver(Valid(s), DenLCM(Valid(s)))

\* the percentile taken at the lower of the two closest ranks
QuantileLowerRank(xs, k) ==
  IF Len(xs) = 0 THEN NaN ELSE xs[((Len(xs) - 1) * k) \div 4 + 1].x

\* linear interpolation between the ranks lo and lo + 1, fr quarters above lo
QuantileAt(xs, lo, fr) ==
  IF fr = 0 THEN xs[lo].x
  ELSE Add(xs[lo].x, Scale(Sub(xs[lo + 1].x, xs[lo].x), fr, 4))

\* Series.describe percentile k/4 (k = 1, 3) of the sorted non-missing
\* values xs: linear interpolation between the closest ranks
Quantile(xs, k) ==
  IF Len(xs) = 0 THEN NaN
  ELSE QuantileAt(xs, ((Len(xs) - 1) * k) \div 4 + 1, ((Len(xs) - 1) * k) % 4)

\* the quartiles taken of all entries of the feature, the missing ones with
\* the others
RankedAll(feature) == sort_values(feature)

\* the non-missing values of a feature in ascending order, of which
\* feature.describe() takes its percentiles
Ranked(feature) == sort_values(Valid(feature))

----------------------------------------------------------------------------
(* Detection: the body of the column loop of outliers_z_score and of       *)
(* outliers_IQR, up to the test of the mode                                *)

\* the Z-score beyond which a value is an outlier
ZLimit == 3

\* the Z mask with the limit itself counted as an outlier
ZMaskInclusive(z) == Le(Num(ZLimit), AbsNum(z))

\* the Z mask taken as the complement of abs(Z) <= 3, which a missing
\* Z-score satisfies
ZMaskNotWithin(z) == ~Le(AbsNum(z), Num(ZLimit))

\* mask = abs(Z) > 3
ZMask(z) == Gt(AbsNum(z), Num(ZLimit))

ZScoreOf(x, mean, stdev) == Div(Sub(x, mean), stdev)

\* the feature with its Z column
WithZ(feature, mean, stdev) ==
  [i \in 1..Len(feature) |->
     [id |-> feature[i].id, x |-> feature[i].x,
      z |-> ZScoreOf(feature[i].x, mean, stdev)]]

ZResult(withZ, lower, upper) ==
  [upper |-> upper, lower |-> lower,
   outliers |-> sort_values(SelectSeq(withZ, LAMBDA e : ZMask(e.z)))]

ZBounds(feature, mean, stdev) ==
  ZResult(WithZ(feature, mean, stdev),
          Add(Scale(stdev, -ZLimit, 1), mean), Add(Scale(stdev, ZLimit, 1), mean))

ZOf(feature) == ZBounds(feature, np_mean(feature), np_std(feature))

z_score_column(t, column) == ZOf(Series(t, column))

\* the fence with its bounds counted as outliers
FenceMaskInclusive(x, lower, upper) == Le(x, lower) \/ Le(upper, x)

\* mask = (feature < lower) | (feature > upper)
FenceMask(x, lower, upper) == Lt(x, lower) \/ Gt(x, upper)

\* the outliers filtered by the upper fence alone
IQRResultUpperOnly(feature, lower, upper) ==
  [upper |-> upper, lower |-> lower,
   outliers |-> sort_values(SelectSeq(feature, LAMBDA e : Gt(e.x, upper)))]

IQRResult(feature, lower, upper) ==
  [upper |-> upper, lower |-> lower,
   outliers |-> sort_values(SelectSeq(feature,
                              LAMBDA e : FenceMask(e.x, lower, upper)))]

IQRBounds(feature, q1, q3, iqr) ==
  IQRResult(feature, Sub(q1, Scale(iqr, 3, 2)), Add(q3, Scale(iqr, 3, 2)))

IQRFences(feature, q1, q3) == IQRBounds(feature, q1, q3, Sub(q3, q1))

IQRFrom(feature, xs) == IQRFences(feature, Quantile(xs, 1), Quantile(xs, 3))

IQROf(feature) == IQRFrom(feature, Ranked(feature))

\* the fences returned in the order (lower, upper)
SwapBounds(res) ==
  [upper |-> res.lower, lower |-> res.upper, outliers |-> res.outliers]

IQR_columnSwapped(t, column) == SwapBounds(IQROf(Series(t, column)))

IQR_column(t, column) == IQROf(Series(t, column))

\* the truncation taken from ten rows on instead of from eleven
ShownFromTen(outliers) ==
  IF Len(outliers) >= 10
  THEN [head |-> SubSeq(outliers, 1, 5), dots |-> TRUE,
        tail |-> SubSeq(outliers, Len(outliers) - 4, Len(outliers))]
  ELSE [head |-> outliers, dots |-> FALSE, tail |-> <<>>]

\* what a print shows of a sequence of outliers: all of it, or its first
\* five and last five rows around a line of dots when it has more than ten
Shown(outliers) ==
  IF Len(outliers) > 10
  THEN [head |-> SubSeq(outliers, 1, 5), dots |-> TRUE,
        tail |-> SubSeq(outliers, Len(outliers) - 4, Len(outliers))]
  ELSE [head |-> outliers, dots |-> FALSE, tail |-> <<>>]

NothingShown == [head |-> <<>>, dots |-> FALSE, tail |-> <<>>]

\* the lines printed for one column by outliers_z_score and outliers_IQR
Report(method, column, res) ==
  [method |-> method, column |-> column, lower |-> res.lower,
   upper |-> res.upper, total |-> Len(res.outliers),
   shown |-> IF Len(res.outliers) # 0 THEN Shown(res.outliers)
             ELSE NothingShown]

None == <<0, 0, 0, -1>>

NoResult == [upper |-> None, lower |-> None, outliers |-> <<>>]

Returned(res) == [ret |-> res, returned |-> TRUE, out |-> <<>>, err |-> "none"]

Raised(e) == [ret |-> NoResult, returned |-> FALSE, out |-> <<>>, err |-> e]

FellThrough == [ret |-> NoResult, returned |-> FALSE, out |-> <<>>, err |-> "none"]

\* the lines of a column printed before the lines of the columns after it
Printed(report, rest) == [rest EXCEPT !.out = <<report>> \o @]

\* outliers_z_score: mode 'return' returns at the first column, any other
\* mode prints every column and returns None
RECURSIVE outliers_z_score(_, _, _)
ZStep(t, columns, mode, res) ==
  IF mode = "return" THEN Returned(res)
  ELSE Printed(Report("Z", Head(columns), res),
               outliers_z_score(t, Tail(columns), mode))

outliers_z_score(t, columns, mode) ==
  IF columns = <<>> THEN FellThrough
  ELSE IF Head(columns) \notin ColSet THEN Raised("KeyError")
  ELSE ZStep(t, columns, mode, z_score_column(t, Head(columns)))

\* outliers_IQR: the same loop around the inter-quartile computation
RECURSIVE outliers_IQR(_, _, _)
\* the return taken after the loop, when every column has been examined
IQRStepReturnLast(t, columns, mode, res) ==
  IF mode = "return" /\ Tail(columns) = <<>> THEN Returned(res)
  ELSE IF mode = "return" THEN outliers_IQR(t, Tail(columns), mode)
  ELSE Printed(Report("IQR", Head(columns), res),
               outliers_IQR(t, Tail(columns), mode))

IQRStep(t, columns, mode, res) ==
  IF mode = "return" THEN Returned(res)
  ELSE Printed(Report("IQR", Head(columns), res),
               outliers_IQR(t, Tail(columns), mode))

outliers_IQR(t, columns, mode) ==
  IF columns = <<>> THEN FellThrough
  ELSE IF Head(columns) \notin ColSet THEN Raised("KeyError")
  ELSE IQRStep(t, columns, mode, IQR_column(t, Head(columns)))

\* the Z-score statistics are exact only for columns of rationals: a column
\* clipped to an irrational Z bound is not analysed by Z-score again
ZExact(t, column) == column \in ColSet => AllRat(Series(t, column))

----------------------------------------------------------------------------
(* handle_outliers *)

\* using.strip().upper() on the tokens of the model
StripUpper(using) ==
  CASE using = "custom" -> "CUSTOM"
    [] using = " iqr "  -> "IQR"
    [] using = "z"      -> "Z"
    [] OTHER            -> using

\* a missing lower taken from the wrong end of the column
CustomLowerMax(ci, feature) == IF ci[1] = None THEN series_max(feature) ELSE ci[1]

\* lower, upper = custom_intervals, a missing side taken from the column
CustomLower(ci, feature) == IF ci[1] = None THEN series_min(feature) ELSE ci[1]

CustomUpper(ci, feature) == IF ci[2] = None THEN series_max(feature) ELSE ci[2]

\* the concatenation that forgets the rows above upper
CustomOutliersBelow(feature, lower, upper) ==
  sort_values(SelectSeq(feature, LAMBDA e : Lt(e.x, lower)))

\* the two selections with the bounds themselves counted on each side
CustomOutliersInclusive(feature, lower, upper) ==
  sort_values(SelectSeq(feature, LAMBDA e : Le(e.x, lower))
              \o SelectSeq(feature, LAMBDA e : Le(upper, e.x)))

\* pd_concat((df[df[column] < lower], df[df[column] > upper]))[column].sort_values()
CustomOutliers(feature, lower, upper) ==
  sort_values(SelectSeq(feature, LAMBDA e : Lt(e.x, lower))
              \o SelectSeq(feature, LAMBDA e : Gt(e.x, upper)))

IndexOf(outliers) == {outliers[i].id : i \in 1..Len(outliers)}

\* a drop that is not in place leaves the table as it is
DropNotInPlace(t, labels) == t

\* df.drop(index=labels, inplace=True)
Drop(t, labels) == SelectSeq(t, LAMBDA row : row.id \notin labels)

\* the assignment without the column: df.loc[df[column] > upper] = upper
ClipUpperRow(t, column, upper) ==
  [i \in 1..Len(t) |->
     IF Gt(t[i].v[column], upper)
     THEN [t[i] EXCEPT !.v = [c \in ColSet |-> upper]] ELSE t[i]]

\* df.loc[df[column] > upper, column] = upper
ClipUpper(t, column, upper) ==
  [i \in 1..Len(t) |->
     IF Gt(t[i].v[column], upper) THEN [t[i] EXCEPT !.v[column] = upper] ELSE t[i]]

\* df.loc[df[column] < lower, column] = lower
ClipLower(t, column, lower) ==
  [i \in 1..Len(t) |->
     IF Lt(t[i].v[column], lower) THEN [t[i] EXCEPT !.v[column] = lower] ELSE t[i]]

\* compression that forgets the lower bound
CompressUpperOnly(t, column, lower, upper) == ClipUpper(t, column, upper)

Compress(t, column, lower, upper) ==
  ClipLower(ClipUpper(t, column, upper), column, lower)

\* the locals of handle_outliers when the column loop starts: upper, lower
\* and outliers are not bound yet
HandleStart(t, using) ==
  [df |-> t, using |-> using, upper |-> None, lower |-> None,
   outliers |-> <<>>, bound |-> FALSE, out |-> <<>>, trace |-> <<>>,
   err |-> "none", exact |-> TRUE]

\* the fallback taken for every custom call, and to the IQR method
UsingAfterCustomAlways(using, ci) ==
  IF StripUpper(using) = "CUSTOM" THEN "IQR" ELSE using

\* the fallback to the IQR method instead of the Z-score method
UsingAfterCustomIQR(using, ci) ==
  IF StripUpper(using) = "CUSTOM" /\ ci = <<None, None>> THEN "IQR" ELSE using

\* the method after the test of the custom interval: without an interval
\* the Z-score method takes over
UsingAfterCustom(using, ci) ==
  IF StripUpper(using) = "CUSTOM" /\ ci = <<None, None>> THEN "Z" ELSE using

\* the triple bound in the order lower, upper, outliers
BoundLowerFirst(res) ==
  [upper |-> res.lower, lower |-> res.upper, outliers |-> res.outliers,
   bound |-> TRUE]

\* upper, lower, outliers = <the triple a detector returned>
Bound(res) ==
  [upper |-> res.upper, lower |-> res.lower, outliers |-> res.outliers,
   bound |-> TRUE]

CustomResult(feature, lower, upper) ==
  [upper |-> upper, lower |-> lower,
   outliers |-> CustomOutliers(feature, lower, upper), bound |-> TRUE]

CustomBound(feature, ci) ==
  CustomResult(feature, CustomLower(ci, feature), CustomUpper(ci, feature))

\* upper, lower, outliers after the custom branch
DetectCustom(st, column, ci) ==
  IF StripUpper(st.using) = "CUSTOM" /\ ci # <<None, None>>
  THEN CustomBound(Series(st.df, column), ci)
  ELSE [upper |-> st.upper, lower |-> st.lower, outliers |-> st.outliers,
        bound |-> st.bound]

\* upper, lower, outliers after the IQR branch, d their values before it
DetectIQR(st, column, using1, d) ==
  IF StripUpper(using1) = "IQR"
  THEN Bound(outliers_IQR(st.df, <<column>>, "return").ret)
  ELSE d

\* the Z branch taken for every token that names no other method
DetectZElse(st, column, using1, d) ==
  IF StripUpper(using1) \notin {"IQR", "CUSTOM"}
  THEN Bound(outliers_z_score(st.df, <<column>>, "return").ret)
  ELSE d

\* upper, lower, outliers after the Z branch, d their values before it
DetectZ(st, column, using1, d) ==
  IF StripUpper(using1) = "Z"
  THEN Bound(outliers_z_score(st.df, <<column>>, "return").ret)
  ELSE d

\* upper, lower, outliers after the three method branches
DetectedBy(st, column, ci, using1) ==
  DetectZ(st, column, using1,
          DetectIQR(st, column, using1, DetectCustom(st, column, ci)))

Detected(st, column, ci) ==
  DetectedBy(st, column, ci, UsingAfterCustom(st.using, ci))

\* the table after the action on the outliers d
Handled(t, column, action, d) ==
  IF action = "remove" THEN Drop(t, IndexOf(d.outliers))
  ELSE IF action = "compress" THEN Compress(t, column, d.lower, d.upper)
  ELSE t

\* the lines printed for one column by handle_outliers
HandleReport(column, action, d) ==
  [column |-> column, action |-> action, total |-> Len(d.outliers),
   shown |-> Shown(d.outliers)]

\* before taken without a copy, a view of the column that the mutation
\* changes with it
PlotBeforeView(st, column, using1, d, df1) ==
  [column |-> column, using |-> using1, lower |-> d.lower, upper |-> d.upper,
   outliers |-> d.outliers, substituted |-> using1 # st.using,
   before |-> Series(df1, column), after |-> Series(df1, column)]

\* what one pass of the loop worked with and what it plotted
Plot(st, column, using1, d, df1) ==
  [column |-> column, using |-> using1, lower |-> d.lower, upper |-> d.upper,
   outliers |-> d.outliers, substituted |-> using1 # st.using,
   before |-> Series(st.df, column), after |-> Series(df1, column)]

\* the locals after a pass that ended without an error
HandleDone(st, column, action, using1, d, df1) ==
  [df |-> df1, using |-> using1, upper |-> d.upper, lower |-> d.lower,
   outliers |-> d.outliers, bound |-> TRUE,
   out |-> Append(st.out, HandleReport(column, action, d)),
   trace |-> Append(st.trace, Plot(st, column, using1, d, df1)),
   err |-> "none",
   exact |-> st.exact /\ (StripUpper(using1) = "Z" => ZExact(st.df, column))]

\* the unbound names noticed only after the action has run, on the interval
\* (1, 1)
HandleDetectedLate(st, column, action, using1, d) ==
  IF ~d.bound
  THEN [st EXCEPT !.df = Handled(st.df, column, action,
                                 CustomBound(Series(st.df, column),
                                             <<Num(1), Num(1)>>)),
                  !.using = using1, !.err = "NameError"]
  ELSE IF action = "remove" /\ ~(IndexOf(d.outliers) \subseteq Ids(st.df))
  THEN [st EXCEPT !.using = using1, !.err = "KeyError"]
  ELSE HandleDone(st, column, action, using1, d,
                  Handled(st.df, column, action, d))

\* the action on the detected outliers d
HandleDetected(st, column, action, using1, d) ==
  IF ~d.bound THEN [st EXCEPT !.using = using1, !.err = "NameError"]
  ELSE IF action = "remove" /\ ~(IndexOf(d.outliers) \subseteq Ids(st.df))
  THEN [st EXCEPT !.using = using1, !.err = "KeyError"]
  ELSE HandleDone(st, column, action, using1, d,
                  Handled(st.df, column, action, d))

\* one pass of the column loop of handle_outliers; the Z-score statistics of
\* a column that holds an irrational value are not computed, and a call
\* that needs them is left out of the model (exact = FALSE)
HandleColumn(st, column, action, ci) ==
  IF column \notin ColSet THEN [st EXCEPT !.err = "KeyError"]
  ELSE IF StripUpper(UsingAfterCustom(st.using, ci)) = "Z" /\ ~ZExact(st.df, column)
  THEN [st EXCEPT !.exact = FALSE, !.err = "inexact"]
  ELSE HandleDetected(st, column, action, UsingAfterCustom(st.using, ci),
                      Detected(st, column, ci))

\* the loop left after its first pass
HandleLoopFirstOnly(st, columns, action, ci) ==
  IF columns = <<>> THEN st
  ELSE HandleColumn(st, Head(columns), action, ci)

\* for column in columns: ...; an error ends the call
RECURSIVE HandleLoop(_, _, _, _)
HandleLoop(st, columns, action, ci) ==
  IF columns = <<>> \/ st.err # "none" THEN st
  ELSE HandleLoop(HandleColumn(st, Head(columns), action, ci),
                  Tail(columns), action, ci)

handle_outliers(t, columns, using, action, ci) ==
  HandleLoop(HandleStart(t, using), columns, action, ci)

----------------------------------------------------------------------------
(* OUTLIER detection/Outlier_detection.py: the earlier module of the same   *)
(* functions. Its detectors compute the bounds as above and leave the       *)
(* outliers in the order of the rows; its handle_outliers has no custom     *)
(* interval.                                                                *)

OD_ZResult(withZ, lower, upper) ==
  [upper |-> upper, lower |-> lower,
   outliers |-> SelectSeq(withZ, LAMBDA e : ZMask(e.z))]

OD_ZBounds(feature, mean, stdev) ==
  OD_ZResult(WithZ(feature, mean, stdev),
             Add(Scale(stdev, -ZLimit, 1), mean), Add(Scale(stdev, ZLimit, 1), mean))

\* outliers_z_score(df, column, mode='return')
OD_outliers_z_score(t, column) ==
  OD_ZBounds(Series(t, column), np_mean(Series(t, column)), np_std(Series(t, column)))

OD_IQRResult(feature, lower, upper) ==
  [upper |-> upper, lower |-> lower,
   outliers |-> SelectSeq(feature, LAMBDA e : FenceMask(e.x, lower, upper))]

OD_IQRBounds(feature, q1, q3, iqr) ==
  OD_IQRResult(feature, Sub(q1, Scale(iqr, 3, 2)), Add(q3, Scale(iqr, 3, 2)))

OD_IQRFences(feature, q1, q3) == OD_IQRBounds(feature, q1, q3, Sub(q3, q1))

OD_IQRFrom(feature, xs) == OD_IQRFences(feature, Quantile(xs, 1), Quantile(xs, 3))

\* outliers_IQR(df, column, mode='return')
OD_outliers_IQR(t, column) == OD_IQRFrom(Series(t, column), Ranked(Series(t, column)))

\* the locals of handle_outliers when the column loop starts
OD_HandleStart(t) ==
  [df |-> t, upper |-> None, lower |-> None, outliers |-> <<>>,
   bound |-> FALSE, out |-> <<>>, trace |-> <<>>, err |-> "none"]

\* upper, lower, outliers after the branch that tests using for 'IQR'
OD_DetectIQR(st, column, using) ==
  IF StripUpper(using) = "IQR"
  THEN Bound(OD_outliers_z_score(st.df, column))
  ELSE [upper |-> st.upper, lower |-> st.lower, outliers |-> st.outliers,
        bound |-> st.bound]

\* upper, lower, outliers after the branch that tests using for 'Z'
OD_DetectZ(st, column, using, d) ==
  IF StripUpper(using) = "Z"
  THEN Bound(OD_outliers_IQR(st.df, column))
  ELSE d

OD_Detected(st, column, using) ==
  OD_DetectZ(st, column, using, OD_DetectIQR(st, column, using))

\* the lines printed for one column: the outliers, all of them
OD_HandleReport(column, action, d) ==
  [column |-> column, action |-> action, outliers |-> d.outliers]

\* what one pass of the loop worked with
OD_Pass(st, column, d, df1) ==
  [column |-> column, lower |-> d.lower, upper |-> d.upper,
   outliers |-> d.outliers,
   before |-> Series(st.df, column), after |-> Series(df1, column)]

\* the locals after a pass that ended without an error; an action that is
\* neither remove nor compress prints nothing
OD_HandleDone(st, column, action, d, df1) ==
  [df |-> df1, upper |-> d.upper, lower |-> d.lower, outliers |-> d.outliers,
   bound |-> d.bound,
   out |-> IF action \in {"remove", "compress"}
           THEN Append(st.out, OD_HandleReport(column, action, d))
           ELSE st.out,
   trace |-> Append(st.trace, OD_Pass(st, column, d, df1)),
   err |-> "none"]

\* the action on the detected outliers d; without a method upper, lower and
\* outliers are not bound
OD_HandleDetected(st, column, action, d) ==
  IF action \in {"remove", "compress"} /\ ~d.bound
  THEN [st EXCEPT !.err = "NameError"]
  ELSE IF action = "remove" /\ ~(IndexOf(d.outliers) \subseteq Ids(st.df))
  THEN [st EXCEPT !.err = "KeyError"]
  ELSE OD_HandleDone(st, column, action, d, Handled(st.df, column, action, d))

\* one pass of the column loop; a column that the table lacks fails in the
\* detector, or in df[column] of the compression
OD_HandleColumn(st, column, using, action) ==
  IF column \notin ColSet /\ (StripUpper(using) \in {"Z", "IQR"} \/ action = "compress")
  THEN [st EXCEPT !.err = "KeyError"]
  ELSE IF column \notin ColSet
  THEN (IF action = "remove" THEN [st EXCEPT !.err = "NameError"] ELSE st)
  ELSE OD_HandleDetected(st, column, action, OD_Detected(st, column, using))

RECURSIVE OD_HandleLoop(_, _, _, _)
OD_HandleLoop(st, columns, using, action) ==
  IF columns = <<>> \/ st.err # "none" THEN st
  ELSE OD_HandleLoop(OD_HandleColumn(st, Head(columns), using, action),
                     Tail(columns), using, action)

OD_handle_outliers(t, columns, using, action) ==
  OD_HandleLoop(OD_HandleStart(t), columns, using, action)

----------------------------------------------------------------------------
(* analysis_quant and analysis_cate: which columns they analyse *)

\* the number of distinct values above which analysis_cate takes a column
\* for a numerical one
NuniqueLimit == 20

\* Series.nunique(): the number of distinct non-missing values
nunique(feature) ==
  Cardinality({Valid(feature)[i].x : i \in 1..Len(Valid(feature))})

\* Series.value_counts(): each distinct non-missing value with its count
value_counts(feature) ==
  {<<Valid(feature)[i].x,
     Cardinality({j \in 1..Len(feature) : feature[j].x = Valid(feature)[i].x})>> :
       i \in 1..Len(Valid(feature))}

\* analysis_quant leaves out a column of storage type object
QuantSkips(dtype) == dtype = "object"

\* one pass of the column loop of analysis_quant: the message, or the
\* prints of outliers_z_score and outliers_IQR
QuantColumn(t, dtype, column) ==
  IF QuantSkips(dtype)
  THEN [column |-> column, analysed |-> FALSE, z |-> <<>>, iqr |-> <<>>]
  ELSE [column |-> column, analysed |-> TRUE,
        z |-> outliers_z_score(t, <<column>>, "print").out,
        iqr |-> outliers_IQR(t, <<column>>, "print").out]

RECURSIVE analysis_quant(_, _, _)
analysis_quant(t, dt, columns) ==
  IF columns = <<>> THEN [out |-> <<>>, err |-> "none"]
  ELSE IF Head(columns) \notin ColSet THEN [out |-> <<>>, err |-> "KeyError"]
  ELSE Printed(QuantColumn(t, dt[Head(columns)], Head(columns)),
               analysis_quant(t, dt, Tail(columns)))

\* analysis_cate leaves out a column with more than twenty distinct values,
\* unless it is forced
CateSkips(feature, force) == ~force /\ nunique(feature) > NuniqueLimit

\* one pass of the column loop of analysis_cate: the message, or the
\* distinct values with their counts
CateColumn(feature, column, force) ==
  IF CateSkips(feature, force)
  THEN [column |-> column, analysed |-> FALSE, values |-> {}]
  ELSE [column |-> column, analysed |-> TRUE, values |-> value_counts(feature)]

RECURSIVE analysis_cate(_, _, _)
analysis_cate(t, columns, force) ==
  IF columns = <<>> THEN [out |-> <<>>, err |-> "none"]
  ELSE IF Head(columns) \notin ColSet THEN [out |-> <<>>, err |-> "KeyError"]
  ELSE Printed(CateColumn(Series(t, Head(columns)), Head(columns), force),
               analysis_cate(t, Tail(columns), force))

----------------------------------------------------------------------------
(* The tables and the arguments of the calls *)

CellVals == {Num(i) : i \in 0..MaxVal} \cup {NaN}

\* column a is given; column b holds the same values in reverse row order
MkTable(avals) ==
  [i \in 1..Len(avals) |-> Row(i - 1, avals[i], avals[Len(avals) + 1 - i])]

Padded(avals) == avals \o [i \in 1..Pad |-> avals[1]]

FreeColumns == UNION {[1..n -> CellVals] : n \in 0..MaxFree}

\* the columns of section 8 of the specification
ScenarioColumn == <<Num(1), Num(2), Num(3), Num(4), Num(5), Num(100)>>

ConstantColumn == <<Num(10), Num(10), Num(10), Num(10)>>

\* a column with more than ten outliers under each method: a hundred
\* values 0 and eleven values 1
LargeColumn == [i \in 1..111 |-> IF i <= 11 THEN Num(1) ELSE Num(0)]

Tables ==
  {MkTable(f) : f \in FreeColumns}
  \cup {MkTable(Padded(f)) : f \in FreeColumns \ {<<>>}}
  \cup {MkTable(ScenarioColumn), MkTable(ConstantColumn), MkTable(LargeColumn)}

CustomVals == {Num(1), Num(50)}

Intervals == (CustomVals \cup {None}) \X (CustomVals \cup {None})

Modes == {"print", "return"}

\* the three methods and a token that is none of them
Usings == {"Z", "IQR", "custom", "median"}

\* the two actions and a token that is neither
Actions == {"compress", "remove", "drop"}

\* one column, two columns, and lists that name a column the table lacks
ColumnLists == {<<"a">>, <<"a", "b">>, <<"zz", "a">>, <<"a", "zz">>}

\* longest column and largest number of distinct values of the tables that
\* analysis_quant and analysis_cate are called on
MaxDistinct == 22

KindSizes == {1} \cup ((NuniqueLimit - 1)..MaxDistinct)

\* a column of n rows with min(n, m) distinct values
KindColumn(n, m) == [i \in 1..n |-> Num(i % m)]

KindTables ==
  {MkTable(KindColumn(n, m)) : n \in {0} \cup KindSizes, m \in KindSizes}

\* the storage types of a column
Dtypes == {"int64", "float64", "object"}

----------------------------------------------------------------------------
(* The state machine: a table and the calls made on it *)

VARIABLES df, dtypes, call, ret, out, trace, err, ncalls

vars == <<df, dtypes, call, ret, out, trace, err, ncalls>>

NoCall == [fn |-> "none"]

NotReturned == [returned |-> FALSE, value |-> NoResult]

Init ==
  /\ df \in Tables
  /\ dtypes = [c \in ColSet |-> "float64"]
  /\ call = NoCall
  /\ ret = NotReturned
  /\ out = <<>>
  /\ trace = <<>>
  /\ err = "none"
  /\ ncalls = 0

\* the analysis that sorts the column of the table itself instead of a copy
CallZScoreSorting(columns, mode) ==
  /\ \A i \in 1..Len(columns) : ZExact(df, columns[i])
  /\ \E r \in {outliers_z_score(df, columns, mode)} :
         /\ ret' = [returned |-> r.returned, value |-> r.ret]
         /\ out' = r.out
         /\ err' = r.err
  /\ call' = [fn |-> "outliers_z_score", columns |-> columns, mode |-> mode]
  /\ trace' = <<>>
  /\ ncalls' = ncalls + 1
  /\ UNCHANGED dtypes
  /\ df' = IF columns[1] \in ColSet
           THEN [i \in 1..Len(df) |->
                   [df[i] EXCEPT !.v[columns[1]] =
                      sort_values(Series(df, columns[1]))[i].x]]
           ELSE df

\* outliers_z_score(df, columns, mode)
CallZScore(columns, mode) ==
  /\ \A i \in 1..Len(columns) : ZExact(df, columns[i])
  /\ \E r \in {outliers_z_score(df, columns, mode)} :
         /\ ret' = [returned |-> r.returned, value |-> r.ret]
         /\ out' = r.out
         /\ err' = r.err
  /\ call' = [fn |-> "outliers_z_score", columns |-> columns, mode |-> mode]
  /\ trace' = <<>>
  /\ ncalls' = ncalls + 1
  /\ UNCHANGED dtypes
  /\ UNCHANGED df

\* the detector that keeps what the last handle_outliers call found for the
\* column and returns it again, whatever the table holds by now
CallIQRCached(columns, mode) ==
  /\ \E r \in {IF trace # <<>> /\ trace[1].column = columns[1] /\ mode = "return"
               THEN Returned(IQROf(trace[1].before))
               ELSE outliers_IQR(df, columns, mode)} :
         /\ ret' = [returned |-> r.returned, value |-> r.ret]
         /\ out' = r.out
         /\ err' = r.err
  /\ call' = [fn |-> "outliers_IQR", columns |-> columns, mode |-> mode]
  /\ trace' = <<>>
  /\ ncalls' = ncalls + 1
  /\ UNCHANGED dtypes
  /\ UNCHANGED df

\* outliers_IQR(df, columns, mode)
CallIQR(columns, mode) ==
  /\ \E r \in {outliers_IQR(df, columns, mode)} :
         /\ ret' = [returned |-> r.returned, value |-> r.ret]
         /\ out' = r.out
         /\ err' = r.err
  /\ call' = [fn |-> "outliers_IQR", columns |-> columns, mode |-> mode]
  /\ trace' = <<>>
  /\ ncalls' = ncalls + 1
  /\ UNCHANGED dtypes
  /\ UNCHANGED df

\* handle_outliers(df, columns, using, action, custom_intervals)
CallHandle(columns, using, action, ci) ==
  /\ \E st \in {handle_outliers(df, columns, using, action, ci)} :
         /\ st.exact
         /\ df' = st.df
         /\ out' = st.out
         /\ trace' = st.trace
         /\ err' = st.err
  /\ ret' = NotReturned
  /\ call' = [fn |-> "handle_outliers", columns |-> columns, using |-> using,
              action |-> action, ci |-> ci]
  /\ ncalls' = ncalls + 1
  /\ UNCHANGED dtypes

\* custom_intervals is given with using='custom' and has its default,
\* (None, None), with the other methods
HandleArgs ==
  {<<using, action, ci>> \in Usings \X Actions \X Intervals :
     using # "custom" => ci = <<None, None>>}

\* Spec: any call of the three functions on column a
Next ==
  /\ ncalls < MaxCalls
  /\ \/ \E columns \in ColumnLists, mode \in Modes : CallZScore(columns, mode)
     \/ \E columns \in ColumnLists, mode \in Modes : CallIQR(columns, mode)
     \/ \E columns \in ColumnLists, args \in HandleArgs :
           CallHandle(columns, args[1], args[2], args[3])

Spec == Init /\ [][Next]_vars

\* SpecRepeat: a compressing call of handle_outliers, then the same call again
FirstCompress ==
  /\ ncalls = 0
  /\ \E columns \in ColumnLists, args \in HandleArgs :
        /\ args[2] = "compress"
        /\ CallHandle(columns, args[1], args[2], args[3])

RepeatCall ==
  /\ ncalls \in 1..(MaxRepeat - 1)
  /\ call.fn = "handle_outliers"
  /\ CallHandle(call.columns, call.using, call.action, call.ci)

NextRepeat == FirstCompress \/ RepeatCall

SpecRepeat == Init /\ [][NextRepeat]_vars

\* Outlier_detection.handle_outliers(df, columns, using, action)
CallODHandle(columns, using, action) ==
  /\ \E st \in {OD_handle_outliers(df, columns, using, action)} :
         /\ df' = st.df
         /\ out' = st.out
         /\ trace' = st.trace
         /\ err' = st.err
  /\ ret' = NotReturned
  /\ call' = [fn |-> "OD_handle_outliers", columns |-> columns,
              using |-> using, action |-> action]
  /\ ncalls' = ncalls + 1
  /\ UNCHANGED dtypes

\* SpecOD: one call of handle_outliers of Outlier_detection.py
NextOD ==
  /\ ncalls < MaxCalls
  /\ \E columns \in ColumnLists, using \in Usings \ {"custom"}, action \in Actions :
        CallODHandle(columns, using, action)

SpecOD == Init /\ [][NextOD]_vars

\* a table for analysis_quant and analysis_cate, its columns of any storage
\* type
InitKind ==
  /\ df \in KindTables
  /\ dtypes \in [ColSet -> Dtypes]
  /\ call = NoCall
  /\ ret = NotReturned
  /\ out = <<>>
  /\ trace = <<>>
  /\ err = "none"
  /\ ncalls = 0

\* analysis_quant(df, columns)
CallAnalysisQuant(columns) ==
  /\ \E r \in {analysis_quant(df, dtypes, columns)} :
         /\ out' = r.out
         /\ err' = r.err
  /\ call' = [fn |-> "analysis_quant", columns |-> columns]
  /\ ret' = NotReturned
  /\ trace' = <<>>
  /\ ncalls' = ncalls + 1
  /\ UNCHANGED <<df, dtypes>>

\* analysis_cate(df, columns, force=force)
CallAnalysisCate(columns, force) ==
  /\ \E r \in {analysis_cate(df, columns, force)} :
         /\ out' = r.out
         /\ err' = r.err
  /\ call' = [fn |-> "analysis_cate", columns |-> columns, force |-> force]
  /\ ret' = NotReturned
  /\ trace' = <<>>
  /\ ncalls' = ncalls + 1
  /\ UNCHANGED <<df, dtypes>>

\* SpecKind: one call of analysis_quant or of analysis_cate
NextKind ==
  /\ ncalls < MaxCalls
  /\ \/ \E columns \in ColumnLists : CallAnalysisQuant(columns)
     \/ \E columns \in ColumnLists, force \in BOOLEAN :
           CallAnalysisCate(columns, force)

SpecKind == InitKind /\ [][NextKind]_vars

\* SpecFresh: a detector is called in return mode, then called again or
\* after a call of handle_outliers on column a
MaxFresh == 3

FreshColumns == {<<"a">>, <<"b", "a">>}

InitFresh ==
  /\ Init
  /\ Len(df) <= Len(ScenarioColumn)

FreshAnalyse ==
  /\ ncalls < MaxFresh
  /\ \E columns \in FreshColumns :
        \/ CallZScore(columns, "return")
        \/ CallIQR(columns, "return")

FreshHandle ==
  /\ ncalls = 1
  /\ \E args \in HandleArgs : CallHandle(<<"a">>, args[1], args[2], args[3])

NextFresh == FreshAnalyse \/ FreshHandle

SpecFresh == InitFresh /\ [][NextFresh]_vars

----------------------------------------------------------------------------
(* Properties *)

\* the row identity id is among the outliers
InOutliers(outliers, id) == \E j \in 1..Len(outliers) : outliers[j].id = id

\* v lies outside the fence, strictly
Outside(v, lower, upper) == Lt(v, lower) \/ Gt(v, upper)

OnFence(v, lower, upper) == Eq(v, lower) \/ Eq(v, upper)

\* the outliers are the entries of the series strictly outside the fence
Fenced(feature, lower, upper, outliers) ==
  \A j \in 1..Len(feature) :
     InOutliers(outliers, feature[j].id) <=> Outside(feature[j].x, lower, upper)

\* no entry that equals a bound is an outlier
FenceIsInside(feature, lower, upper, outliers) ==
  \A j \in 1..Len(feature) :
     OnFence(feature[j].x, lower, upper) => ~InOutliers(outliers, feature[j].id)

FenceRule(feature, lower, upper, outliers) ==
  /\ Fenced(feature, lower, upper, outliers)
  /\ FenceIsInside(feature, lower, upper, outliers)

\* the passes of the column loop of the last handle_outliers call
Passes == 1..Len(trace)

ValuesOf(series) == [j \in 1..Len(series) |-> series[j].x]

ScenarioSeries == Series(MkTable(ScenarioColumn), "a")

\* the pass used the IQR method or a custom interval
FencePass(k) ==
  trace[k].using = "IQR" \/ (trace[k].using = "custom" /\ call.ci # <<None, None>>)

\* C1 as stated: with the IQR method and with a custom interval a value is
\* an outlier iff it is less than lower or greater than upper, and a value
\* equal to lower or to upper never is
C1_Original ==
  /\ (call.fn = "outliers_IQR" /\ ret.returned) =>
        FenceRule(Series(df, call.columns[1]), ret.value.lower, ret.value.upper,
                  ret.value.outliers)
  /\ \A k \in Passes :
        FencePass(k) =>
           FenceRule(trace[k].before, trace[k].lower, trace[k].upper,
                     trace[k].outliers)

\* C1: with the IQR method and with a custom interval a value is an outlier
\* iff it is less than lower or greater than upper; unless lower > upper, a
\* value equal to lower or to upper is no outlier
C1_FenceRule ==
  /\ (call.fn = "outliers_IQR" /\ ret.returned) =>
        FenceRule(Series(df, call.columns[1]), ret.value.lower, ret.value.upper,
                  ret.value.outliers)
  /\ \A k \in Passes :
        FencePass(k) =>
           /\ Fenced(trace[k].before, trace[k].lower, trace[k].upper,
                     trace[k].outliers)
           /\ ~Gt(trace[k].lower, trace[k].upper) =>
                 FenceIsInside(trace[k].before, trace[k].lower, trace[k].upper,
                               trace[k].outliers)

\* an IQR result with an outlier and a value on the fence that is none
C1_Witness ==
  /\ call.fn = "outliers_IQR" /\ ret.returned
  /\ ret.value.outliers # <<>>
  /\ \E i \in 1..Len(df) :
        /\ OnFence(df[i].v["a"], ret.value.lower, ret.value.upper)
        /\ ~InOutliers(ret.value.outliers, df[i].id)

\* C2: the rows outliers_z_score selects by |z| > 3 are the rows whose value
\* is less than lower or greater than upper, when stdev > 0
C2_ZMaskIsFence ==
  /\ (call.fn = "outliers_z_score" /\ ret.returned
        /\ Lt(ret.value.lower, ret.value.upper)) =>
        FenceRule(Series(df, call.columns[1]), ret.value.lower, ret.value.upper,
                  ret.value.outliers)
  /\ \A k \in Passes :
        (trace[k].using = "Z" /\ Lt(trace[k].lower, trace[k].upper)) =>
           FenceRule(trace[k].before, trace[k].lower, trace[k].upper,
                     trace[k].outliers)

\* a Z-score result with an outlier
C2_Witness ==
  /\ call.fn = "outliers_z_score" /\ ret.returned
  /\ Lt(ret.value.lower, ret.value.upper)
  /\ ret.value.outliers # <<>>

\* every value above upper became upper, every value below lower became
\* lower, every value between them stayed
Clipped(before, after, lower, upper) ==
  /\ Len(after) = Len(before)
  /\ \A j \in 1..Len(before) :
        LET v == before[j].x
            w == after[j].x
        IN  /\ after[j].id = before[j].id
            /\ Gt(v, upper) => w = upper
            /\ Lt(v, lower) => w = lower
            /\ (Le(lower, v) /\ Le(v, upper)) => w = v

Removed(before, after, outliers) ==
  /\ Len(after) = Len(before) - Len(outliers)
  /\ \A j \in 1..Len(after) : ~InOutliers(outliers, after[j].id)
  /\ after = SelectSeq(before, LAMBDA e : ~InOutliers(outliers, e.id))

C5_Original == [][ncalls >= 1 => df' = df]_vars

\* the last call used a custom interval that was given
CustomGiven == call.using = "custom" /\ call.ci # <<None, None>>

\* C5: a second compressing call with the same custom interval, given and
\* not (None, None), leaves the table as the first call left it
C5_CustomCompressTwice == [][(ncalls >= 1 /\ CustomGiven) => df' = df]_vars

\* the second call with a custom interval found outliers again
C5_Witness ==
  /\ ncalls = 2 /\ CustomGiven /\ call.action = "compress"
  /\ Len(trace) = 1
  /\ trace[1].outliers # <<>>
  /\ trace[1].before = trace[1].after

\* two values of the series differ
NonConstant(feature) ==
  \E i, j \in 1..Len(feature) :
     /\ ~IsNaN(feature[i].x) /\ ~IsNaN(feature[j].x)
     /\ ~Eq(feature[i].x, feature[j].x)

\* C6 as stated: for a non-constant column the IQR bounds and the Z-score
\* bounds satisfy lower < upper
C6_Original ==
  /\ (call.fn \in {"outliers_IQR", "outliers_z_score"} /\ ret.returned
        /\ NonConstant(Series(df, call.columns[1]))) =>
        Lt(ret.value.lower, ret.value.upper)
  /\ \A k \in Passes :
        (trace[k].using \in {"IQR", "Z"} /\ NonConstant(trace[k].before)) =>
           Lt(trace[k].lower, trace[k].upper)

\* C6: for a non-constant column the Z-score bounds satisfy lower < upper
\* and the IQR bounds satisfy lower <= upper
C6_BoundOrder ==
  /\ (call.fn = "outliers_z_score" /\ ret.returned
        /\ NonConstant(Series(df, call.columns[1]))) =>
        Lt(ret.value.lower, ret.value.upper)
  /\ (call.fn = "outliers_IQR" /\ ret.returned
        /\ NonConstant(Series(df, call.columns[1]))) =>
        Le(ret.value.lower, ret.value.upper)
  /\ \A k \in Passes :
        /\ (trace[k].using = "Z" /\ NonConstant(trace[k].before)) =>
              Lt(trace[k].lower, trace[k].upper)
        /\ (trace[k].using = "IQR" /\ NonConstant(trace[k].before)) =>
              Le(trace[k].lower, trace[k].upper)

\* the IQR bounds of a non-constant column coincide
C6_Witness ==
  /\ call.fn = "outliers_IQR" /\ ret.returned
  /\ NonConstant(Series(df, "a"))
  /\ Eq(ret.value.lower, ret.value.upper)

\* the k-th smallest value of a series without missing values, by counting
OrderStat(vs, k) ==
  vs[CHOOSE j \in 1..Len(vs) :
       /\ Cardinality({i \in 1..Len(vs) : Lt(vs[i].x, vs[j].x)}) < k
       /\ Cardinality({i \in 1..Len(vs) : Le(vs[i].x, vs[j].x)}) >= k].x

\* 4*q is the mix of the two order statistics around rank (n - 1)*k/4
IsQuartile(vs, k, q) ==
  LET pos4 == (Len(vs) - 1) * k
      lo   == pos4 \div 4 + 1
      fr   == pos4 % 4
      hi   == IF fr = 0 THEN lo ELSE lo + 1
  IN  Scale(q, 4, 1) = Add(Scale(OrderStat(vs, lo), 4 - fr, 1),
                          Scale(OrderStat(vs, hi), fr, 1))

\* the quartiles behind Tukey's fences lower = q1 - 1.5*iqr, upper = q3 + 1.5*iqr
TukeyQ1(lower, upper) == Add(lower, Scale(Sub(upper, lower), 3, 8))

TukeyQ3(lower, upper) == Sub(upper, Scale(Sub(upper, lower), 3, 8))

\* C7: outliers_IQR takes q1 and q3 as the 25th and 75th percentile with
\* linear interpolation between the closest ranks and returns
\* lower = q1 - 1.5*(q3 - q1), upper = q3 + 1.5*(q3 - q1); [1,2,3,4,5,100]
\* gives q1 = 2.25, q3 = 4.75, lower = -1.5, upper = 8.5 and the outlier 100
C7_TukeyFences ==
  (call.fn = "outliers_IQR" /\ ret.returned) =>
     LET feature == Series(df, call.columns[1])
         vs      == Valid(feature)
         lower   == ret.value.lower
         upper   == ret.value.upper
     IN  /\ vs # <<>> =>
               /\ IsQuartile(vs, 1, TukeyQ1(lower, upper))
               /\ IsQuartile(vs, 3, TukeyQ3(lower, upper))
         /\ feature = ScenarioSeries =>
               /\ TukeyQ1(lower, upper) = Rat(9, 4)
               /\ TukeyQ3(lower, upper) = Rat(19, 4)
               /\ lower = Rat(-3, 2)
               /\ upper = Rat(17, 2)
               /\ ret.value.outliers = <<[id |-> 5, x |-> Num(100)]>>

\* outliers_IQR has returned the fences of a column whose quartiles lie
\* between two of its values
C7_Witness ==
  /\ call.fn = "outliers_IQR" /\ ret.returned
  /\ Len(df) = 4 /\ Valid(Series(df, "a")) = Series(df, "a")
  /\ Lt(ret.value.lower, ret.value.upper)
  /\ ret.value.outliers # <<>>

\* the sum of the values vs[lo..hi]
RECURSIVE SumNum(_, _, _)
SumNum(vs, lo, hi) ==
  IF lo > hi THEN Num(0)
  ELSE IF lo = hi THEN vs[lo].x
  ELSE Add(SumNum(vs, lo, (lo + hi) \div 2),
           SumNum(vs, (lo + hi) \div 2 + 1, hi))

\* the sum of the squared deviations of the values vs[lo..hi] from m
RECURSIVE SumSqDev(_, _, _, _)
SumSqDev(vs, m, lo, hi) ==
  IF lo > hi THEN Num(0)
  ELSE IF lo = hi THEN Mul(Sub(vs[lo].x, m), Sub(vs[lo].x, m))
  ELSE Add(SumSqDev(vs, m, lo, (lo + hi) \div 2),
           SumSqDev(vs, m, (lo + hi) \div 2 + 1, hi))

\* lower and upper are mean -/+ 3*stdev, for the arithmetic mean and the
\* population standard deviation of the values vs
IsThreeSigma(vs, lower, upper) ==
  LET n     == Len(vs)
      mean  == Scale(SumNum(vs, 1, n), 1, n)
      stdev == Scale(Sub(upper, lower), 1, 6)
  IN  /\ Add(upper, lower) = Scale(mean, 2, 1)
      /\ Sign(stdev) >= 0
      /\ Scale(Mul(stdev, stdev), n, 1) = SumSqDev(vs, mean, 1, n)

\* C8: outliers_z_score takes the arithmetic mean and the population
\* standard deviation (divisor n) of the column and returns
\* lower = mean - 3*stdev and upper = mean + 3*stdev
C8_ThreeSigma ==
  (call.fn = "outliers_z_score" /\ ret.returned
     /\ Valid(Series(df, call.columns[1])) # <<>>) =>
     IsThreeSigma(Valid(Series(df, call.columns[1])), ret.value.lower,
                  ret.value.upper)

\* outliers_z_score has returned the bounds of a column of several values
\* with a positive deviation
C8_Witness ==
  /\ call.fn = "outliers_z_score" /\ ret.returned
  /\ Len(Valid(Series(df, "a"))) >= 3
  /\ Lt(ret.value.lower, ret.value.upper)

\* C9: handle_outliers with using='custom' and custom_intervals (None, None)
\* has the bounds, the outliers and the resulting table of the same call
\* with using='Z', and prints, at the first column it handles, that the
\* Z-score method is used
C9_CustomDefaultIsZ ==
  [][(call'.fn = "handle_outliers" /\ call'.using = "custom"
        /\ call'.ci = <<None, None>>) =>
       LET z == handle_outliers(df, call'.columns, "Z", call'.action, call'.ci)
       IN  /\ df' = z.df
           /\ err' = z.err
           /\ Len(trace') = Len(z.trace)
           /\ \A k \in 1..Len(z.trace) :
                 /\ trace'[k].lower = z.trace[k].lower
                 /\ trace'[k].upper = z.trace[k].upper
                 /\ trace'[k].outliers = z.trace[k].outliers
                 /\ trace'[k].after = z.trace[k].after
           /\ \A k \in 1..Len(trace') : trace'[k].substituted <=> k = 1]_vars

\* a call with using='custom' and no interval has handled Z-score outliers
C9_Witness ==
  /\ call.fn = "handle_outliers" /\ call.using = "custom"
  /\ call.ci = <<None, None>>
  /\ Len(trace) = 1 /\ trace[1].substituted
  /\ trace[1].outliers # <<>>
  /\ trace[1].before # trace[1].after

\* m is the least value of the series, NaN if it has none
IsMin(feature, m) ==
  IF Valid(feature) = <<>> THEN IsNaN(m)
  ELSE /\ \E j \in 1..Len(feature) : feature[j].x = m
       /\ \A j \in 1..Len(feature) : ~IsNaN(feature[j].x) => Le(m, feature[j].x)

IsMax(feature, m) ==
  IF Valid(feature) = <<>> THEN IsNaN(m)
  ELSE /\ \E j \in 1..Len(feature) : feature[j].x = m
       /\ \A j \in 1..Len(feature) : ~IsNaN(feature[j].x) => Le(feature[j].x, m)

\* C10: with using='custom' and exactly one side of the interval None, a
\* missing lower is the minimum of the column and a missing upper its
\* maximum, so that no value is an outlier on that side; (None, 50) on
\* [1,2,3,4,5,100] gives lower 1 and the single outlier 100
C10_OneSidedInterval ==
  \A k \in Passes :
     (call.using = "custom") =>
        LET p == trace[k] IN
        /\ (call.ci[1] = None /\ call.ci[2] # None) =>
              /\ IsMin(p.before, p.lower)
              /\ p.upper = call.ci[2]
              /\ \A j \in 1..Len(p.outliers) : Gt(p.outliers[j].x, p.upper)
        /\ (call.ci[1] # None /\ call.ci[2] = None) =>
              /\ IsMax(p.before, p.upper)
              /\ p.lower = call.ci[1]
              /\ \A j \in 1..Len(p.outliers) : Lt(p.outliers[j].x, p.lower)
        /\ (call.ci = <<None, Num(50)>> /\ p.before = ScenarioSeries) =>
              /\ p.lower = Num(1)
              /\ p.outliers = <<[id |-> 5, x |-> Num(100)]>>

\* (None, 50) has been applied to the scenario column
C10_Witness ==
  /\ call.fn = "handle_outliers" /\ call.using = "custom"
  /\ call.ci = <<None, Num(50)>>
  /\ Len(trace) = 1
  /\ trace[1].before = ScenarioSeries
  /\ trace[1].outliers # <<>>

\* the last call was handle_outliers with both sides of a custom interval
\* given, the lower above the upper
InvertedCall ==
  /\ call.fn = "handle_outliers" /\ call.using = "custom"
  /\ call.ci[1] # None /\ call.ci[2] # None
  /\ Gt(call.ci[1], call.ci[2])

\* a pass has handled every column of the call up to the first one that the
\* table lacks
HandledUpToAbsent ==
  \A i \in 1..Len(call.columns) :
     (\A j \in 1..i : call.columns[j] \in ColSet) => Len(trace) >= i

\* pass k of the last call worked with a custom interval with lower > upper
Inverted(k) ==
  /\ call.using = "custom" /\ call.ci # <<None, None>>
  /\ Gt(trace[k].lower, trace[k].upper)

Degenerate(feature) == ~NonConstant(feature)

\* C12: for a constant column (stdev = 0) or an empty column outliers_z_score
\* ends without an error and with an empty outlier set; [10,10,10,10] gives
\* lower = upper = 10 and no outliers
C12_DegenerateZ ==
  /\ (call.fn = "outliers_z_score" /\ call.columns[1] \in ColSet
        /\ Degenerate(Series(df, call.columns[1]))) =>
        /\ call.mode = "return" =>
              /\ err = "none" /\ ret.returned
              /\ ret.value.outliers = <<>>
        /\ call.mode = "print" =>
              /\ Len(out) >= 1 /\ out[1].total = 0
              /\ out[1].shown = NothingShown
              /\ (\A i \in 1..Len(call.columns) : call.columns[i] \in ColSet) =>
                    err = "none"
        /\ (call.mode = "return" /\ df = MkTable(ConstantColumn)) =>
              /\ ret.value.lower = Num(10)
              /\ ret.value.upper = Num(10)
  /\ \A k \in Passes :
        (trace[k].using = "Z" /\ Degenerate(trace[k].before)) =>
           trace[k].outliers = <<>>

\* outliers_z_score has returned from the constant column
C12_Witness ==
  /\ call.fn = "outliers_z_score" /\ call.mode = "return"
  /\ df = MkTable(ConstantColumn)
  /\ ret.returned /\ err = "none"
  /\ ret.value.outliers = <<>>
  /\ Eq(ret.value.lower, ret.value.upper)

\* column c of the last call has been handled by a pass of handle_outliers
HandledColumn(c) == \E k \in Passes : trace[k].column = c

\* column c of the last call has been reported by a printing analysis
ReportedColumn(c) == \E k \in 1..Len(out) : out[k].column = c

\* C13: when one of several columns fails with an error, the other
\* requested columns are still processed, by handle_outliers and by
\* outliers_z_score and outliers_IQR in print mode
C13_ColumnsIndependent ==
  /\ (call.fn = "handle_outliers" /\ call.using \in {"Z", "IQR", "custom"}) =>
        \A i \in 1..Len(call.columns) :
           call.columns[i] \in ColSet => HandledColumn(call.columns[i])
  /\ (call.fn \in {"outliers_z_score", "outliers_IQR"} /\ call.mode = "print") =>
        \A i \in 1..Len(call.columns) :
           call.columns[i] \in ColSet => ReportedColumn(call.columns[i])

\* C14: if handle_outliers raises an error while it handles a column, the
\* table is as the last pass that ended left it, or as it was before the
\* call when no pass ended: the failing pass has changed no value and no row
C14_NoPartialMutation ==
  [][(call'.fn = "handle_outliers" /\ err' # "none") =>
       IF trace' = <<>> THEN df' = df
       ELSE /\ Series(df', trace'[Len(trace')].column) = trace'[Len(trace')].after
            /\ Ids(df') \subseteq Ids(df)
            /\ \A i \in 1..Len(df') : \A j \in 1..Len(df) :
                  df'[i].id = df[j].id =>
                     \A c \in ColSet :
                        HandledColumn(c)' \/ df'[i].v[c] = df[j].v[c]]_vars

\* a pass has changed column a and the next pass has failed at a column
\* that the table lacks
C14_Witness ==
  /\ call.fn = "handle_outliers" /\ err = "KeyError"
  /\ call.columns = <<"a", "zz">>
  /\ Len(trace) = 1 /\ trace[1].before # trace[1].after

\* the token names none of the three methods
NoMethod(using) == StripUpper(using) \notin {"Z", "IQR", "CUSTOM"}

\* C15: a call of handle_outliers with a token that is none of Z, IQR and
\* custom ends in an error at its first column, with upper, lower and
\* outliers unbound and no pass ended, whatever the action
C15_UnknownMethodRaises ==
  (call.fn = "handle_outliers" /\ NoMethod(call.using)) =>
     /\ err # "none"
     /\ trace = <<>>
     /\ call.columns[1] \in ColSet => err = "NameError"

\* a call with a token that is no method and with an action that is none
\* has failed on a table with rows
C15_Witness ==
  /\ call.fn = "handle_outliers" /\ NoMethod(call.using)
  /\ call.action = "drop" /\ call.columns = <<"a">>
  /\ err = "NameError" /\ Len(df) >= 2

\* C16: a call of handle_outliers with an action that is neither compress
\* nor remove is rejected with an error
C16_UnknownActionRejected ==
  (call.fn = "handle_outliers" /\ call.action \notin {"compress", "remove"}) =>
     err # "none"

\* the entries are in non-decreasing order of their values
Ascending(s) == \A i \in 1..Len(s) : \A j \in i..Len(s) : Le(s[i].x, s[j].x)

\* the entries do not follow the order of the rows of the table
OutOfRowOrder(s) == \E i \in 1..Len(s) : \E j \in i..Len(s) : s[i].id > s[j].id

\* C17: the outlier rows that outliers_z_score and outliers_IQR return and
\* print, and the outlier rows of every pass of handle_outliers (Z, IQR and
\* custom interval), are ordered by their values, ascending
C17_OutliersAscending ==
  /\ (call.fn \in {"outliers_z_score", "outliers_IQR"} /\ ret.returned) =>
        Ascending(ret.value.outliers)
  /\ call.fn \in {"outliers_z_score", "outliers_IQR"} =>
        \A k \in 1..Len(out) :
           Ascending(out[k].shown.head \o out[k].shown.tail)
  /\ \A k \in Passes : Ascending(trace[k].outliers)

\* a custom interval has found outliers that the table holds in another
\* order than that of their values
C17_Witness ==
  /\ call.fn = "handle_outliers" /\ call.using = "custom"
  /\ Len(trace) >= 1 /\ trace[1].using = "custom"
  /\ Len(trace[1].outliers) >= 2
  /\ OutOfRowOrder(trace[1].outliers)
  /\ \E j \in 2..Len(trace[1].outliers) :
        Lt(trace[1].outliers[1].x, trace[1].outliers[j].x)

\* the rows a print shows of the outlier rows o: all of them when they are
\* ten or fewer, else the first five, a line of dots and the last five
ShowsContract(shown, o) ==
  IF Len(o) > 10
  THEN /\ shown.dots
       /\ Len(shown.head) = 5 /\ Len(shown.tail) = 5
       /\ \A i \in 1..5 : /\ shown.head[i] = o[i]
                          /\ shown.tail[i] = o[Len(o) - 5 + i]
  ELSE /\ ~shown.dots
       /\ shown.head = o
       /\ shown.tail = <<>>

\* the outlier rows of a column as the analysis named by the call finds them
AnalysedOutliers(column) ==
  IF call.fn = "outliers_z_score"
  THEN outliers_z_score(df, <<column>>, "return").ret.outliers
  ELSE outliers_IQR(df, <<column>>, "return").ret.outliers

\* C18: every print of outliers_z_score, outliers_IQR and handle_outliers
\* reports the number of outlier rows of the column and shows all of them
\* when they are ten or fewer, and else exactly the first five and the last
\* five, in ascending order, around a line of dots
C18_PrintContract ==
  /\ (call.fn \in {"outliers_z_score", "outliers_IQR"} /\ call.mode = "print") =>
        /\ \A i \in 1..Len(call.columns) :
              (\A j \in 1..i : call.columns[j] \in ColSet) =>
                 /\ Len(out) >= i
                 /\ out[i].column = call.columns[i]
        /\ \A k \in 1..Len(out) :
              /\ out[k].total = Len(AnalysedOutliers(out[k].column))
              /\ ShowsContract(out[k].shown, AnalysedOutliers(out[k].column))
              /\ Ascending(out[k].shown.head \o out[k].shown.tail)
  /\ call.fn = "handle_outliers" =>
        /\ Len(out) = Len(trace)
        /\ \A k \in Passes :
              /\ out[k].column = trace[k].column
              /\ out[k].total = Len(trace[k].outliers)
              /\ ShowsContract(out[k].shown, trace[k].outliers)
              /\ Ascending(out[k].shown.head \o out[k].shown.tail)

\* outliers_z_score has printed a column with eleven outliers: five rows,
\* the dots and five rows
C18_Witness ==
  /\ call.fn = "outliers_z_score" /\ call.mode = "print"
  /\ Len(out) >= 1 /\ out[1].total = 11
  /\ out[1].shown.dots
  /\ Len(out[1].shown.head) = 5 /\ Len(out[1].shown.tail) = 5

\* C19: a call of outliers_z_score or outliers_IQR, in print or in return
\* mode, with or without an error, leaves the table as it was: the same
\* rows, the same columns and the same value in every cell
C19_AnalysisKeepsTable ==
  [][call'.fn \in {"outliers_z_score", "outliers_IQR"} =>
       /\ Len(df') = Len(df)
       /\ \A i \in 1..Len(df) :
             /\ df'[i].id = df[i].id
             /\ DOMAIN df'[i].v = ColSet
             /\ \A c \in ColSet : df'[i].v[c] = df[i].v[c]]_vars

\* outliers_z_score has returned outliers of a table with rows
C19_Witness ==
  /\ call.fn = "outliers_z_score" /\ call.mode = "return"
  /\ ret.returned /\ Len(ret.value.outliers) >= 1
  /\ Len(df) >= 2

\* the row of table t with index label id
RowOf(t, id) == CHOOSE r \in {t[i] : i \in 1..Len(t)} : r.id = id

ListedColumns(columns) == {columns[i] : i \in 1..Len(columns)}

\* C20: a call of handle_outliers, ended or failed, leaves every row with
\* the columns it had; with action compress the rows are the same rows in
\* the same order and every column that is not among the handled ones is
\* unchanged; with action remove every row that is left is a row of the
\* table before the call, in the same order, with all of its values
C20_HandleKeepsSchema ==
  [][call'.fn = "handle_outliers" =>
       /\ \A i \in 1..Len(df') : DOMAIN df'[i].v = ColSet
       /\ call'.action = "compress" =>
             /\ Len(df') = Len(df)
             /\ \A i \in 1..Len(df) :
                   /\ df'[i].id = df[i].id
                   /\ \A c \in ColSet \ ListedColumns(call'.columns) :
                         df'[i].v[c] = df[i].v[c]
       /\ call'.action = "remove" =>
             /\ Ids(df') \subseteq Ids(df)
             /\ \A i \in 1..Len(df') : df'[i] = RowOf(df, df'[i].id)
             /\ \A i \in 1..Len(df') : \A j \in i..Len(df') :
                   df'[i].id <= df'[j].id]_vars

\* a compressing call on column a has changed a value of column a, in a
\* table whose column b holds a value that is not the upper bound
C20_Witness ==
  /\ call.fn = "handle_outliers" /\ call.action = "compress"
  /\ call.columns = <<"a">> /\ err = "none"
  /\ Len(trace) = 1 /\ trace[1].before # trace[1].after
  /\ \E i \in 1..Len(df) :
        /\ Gt(trace[1].before[i].x, trace[1].upper)
        /\ df[i].v["b"] # trace[1].upper

\* the bounds are in order, or one of them is missing
Ordered(lower, upper) == IsNaN(lower) \/ IsNaN(upper) \/ Le(lower, upper)

\* C21: the detectors return (upper, lower, outliers) and handle_outliers
\* binds the triple in that order: in every pass that uses the Z or the IQR
\* method, upper is the upper bound that the detector computes of the column
\* as the pass found it, lower is its lower bound, and lower <= upper; a
\* detector called in return mode gives its bounds in the same fields
C21_TripleOrder ==
  /\ \A k \in Passes :
        /\ StripUpper(trace[k].using) = "Z" =>
              /\ trace[k].upper = ZOf(trace[k].before).upper
              /\ trace[k].lower = ZOf(trace[k].before).lower
              /\ Ordered(trace[k].lower, trace[k].upper)
        /\ StripUpper(trace[k].using) = "IQR" =>
              /\ trace[k].upper = IQROf(trace[k].before).upper
              /\ trace[k].lower = IQROf(trace[k].before).lower
              /\ Ordered(trace[k].lower, trace[k].upper)
  /\ (call.fn \in {"outliers_z_score", "outliers_IQR"} /\ ret.returned) =>
        Ordered(ret.value.lower, ret.value.upper)

\* a pass with the IQR method has worked with a lower bound below its upper
\* bound and has compressed a value to the upper bound
C21_Witness ==
  /\ call.fn = "handle_outliers" /\ call.using = "IQR"
  /\ call.action = "compress" /\ err = "none"
  /\ Len(trace) >= 1
  /\ Lt(trace[1].lower, trace[1].upper)
  /\ \E j \in 1..Len(trace[1].after) :
        /\ Gt(trace[1].before[j].x, trace[1].upper)
        /\ trace[1].after[j].x = trace[1].upper

\* the detector result res has the bounds and the outlier rows of pass p
SameDetection(p, res) ==
  /\ p.upper = res.upper
  /\ p.lower = res.lower
  /\ IndexOf(p.outliers) = IndexOf(res.outliers)

\* C22: handle_outliers of Outlier_detection.py with using 'Z' takes the
\* bounds and the outliers of every column from the Z-score method, and
\* with using 'IQR' from the inter-quartile-range method
C22_MethodAsDocumented ==
  call.fn = "OD_handle_outliers" =>
     \A k \in Passes :
        /\ StripUpper(call.using) = "Z" =>
              SameDetection(trace[k], ZOf(trace[k].before))
        /\ StripUpper(call.using) = "IQR" =>
              SameDetection(trace[k], IQROf(trace[k].before))

\* the storage type holds numbers
NumericDtype(dtype) == dtype \in {"int64", "float64"}

\* the rule: likely categorical with at most twenty distinct values or a
\* storage type that is not numeric, likely numeric otherwise
LikelyCategorical(c) ==
  nunique(Series(df, c)) <= NuniqueLimit \/ ~NumericDtype(dtypes[c])

\* C23: analysis_cate analyses every column that is likely categorical (at
\* most twenty distinct values, or a storage type that is not numeric) and
\* analysis_quant analyses every column that is likely numeric
C23_KindRule ==
  (call.fn \in {"analysis_cate", "analysis_quant"} /\ err = "none") =>
     \A k \in 1..Len(out) :
        /\ (call.fn = "analysis_cate" /\ LikelyCategorical(out[k].column)) =>
              out[k].analysed
        /\ (call.fn = "analysis_quant" /\ ~LikelyCategorical(out[k].column)) =>
              out[k].analysed

\* the entries of a series whose rows are among ids
Restrict(series, ids) == SelectSeq(series, LAMBDA e : e.id \in ids)

\* C24: in every pass of handle_outliers, before holds the values of the
\* column as they were when the pass started, untouched by the mutation:
\* for the first pass the column of the table before the call, for a later
\* pass the column of the rows that the pass before it left; after holds
\* the values of the column when the mutation of the pass is done: for the
\* last pass the column of the table after the call, for an earlier pass
\* the values that the rows still have after the call
C24_Snapshots ==
  [][(call'.fn = "handle_outliers" /\ trace' # <<>>) =>
       /\ trace'[1].before = Series(df, trace'[1].column)
       /\ trace'[Len(trace')].after = Series(df', trace'[Len(trace')].column)
       /\ \A k \in 1..(Len(trace') - 1) :
             /\ trace'[k + 1].before =
                   Restrict(Series(df, trace'[k + 1].column),
                            IndexOf(trace'[k].after))
             /\ \A j \in 1..Len(trace'[k].after) :
                   trace'[k].after[j].id \in Ids(df') =>
                      trace'[k].after[j].x =
                         RowOf(df', trace'[k].after[j].id).v[trace'[k].column]]_vars

\* a call has removed rows in its first pass and in its second pass
C24_Witness ==
  /\ call.fn = "handle_outliers" /\ call.action = "remove" /\ err = "none"
  /\ Len(trace) = 2
  /\ Len(trace[1].after) < Len(trace[1].before)
  /\ trace[2].before # <<>>
  /\ Len(trace[2].after) < Len(trace[2].before)

\* the returned bounds and outliers are those of column c of the table as
\* it is now: the three-sigma bounds or Tukey's fences of its values, and
\* the rows that lie outside them
FreshResult(c) ==
  /\ (call.fn = "outliers_z_score" /\ Valid(Series(df, c)) # <<>>) =>
        IsThreeSigma(Valid(Series(df, c)), ret.value.lower, ret.value.upper)
  /\ (call.fn = "outliers_IQR" /\ Valid(Series(df, c)) # <<>>) =>
        /\ IsQuartile(Valid(Series(df, c)), 1,
                      TukeyQ1(ret.value.lower, ret.value.upper))
        /\ IsQuartile(Valid(Series(df, c)), 3,
                      TukeyQ3(ret.value.lower, ret.value.upper))
  /\ Fenced(Series(df, c), ret.value.lower, ret.value.upper, ret.value.outliers)
  /\ \A j \in 1..Len(ret.value.outliers) :
        \E i \in 1..Len(df) : /\ df[i].id = ret.value.outliers[j].id
                              /\ df[i].v[c] = ret.value.outliers[j].x

\* the detector has returned the result of the first column of its call
FreshReturn == FreshResult(call.columns[1])

\* C25: nothing is cached. What outliers_z_score or outliers_IQR returns is
\* computed from the table as it is at the call, also after handle_outliers
\* has changed it, and a call repeated with no mutation in between returns
\* the same bounds and the same outliers
C25_NoCaching ==
  /\ []((call.fn \in {"outliers_z_score", "outliers_IQR"} /\ ret.returned) =>
          FreshReturn)
  /\ [][(call'.fn \in {"outliers_z_score", "outliers_IQR"} /\ ret'.returned
          /\ call.fn = call'.fn /\ call.columns = call'.columns
          /\ ret.returned) =>
             ret' = ret]_vars

\* outliers_IQR has found no outlier in the scenario column after
\* handle_outliers has compressed its value 100 to the upper fence 8.5
C25_Witness ==
  /\ ncalls = 3
  /\ call.fn = "outliers_IQR" /\ call.columns = <<"a">> /\ ret.returned
  /\ Len(df) = 6 /\ df[6].v["a"] = Rat(17, 2)
  /\ ret.value.upper = Rat(17, 2)
  /\ ret.value.outliers = <<>>

\* the entries of a series that hold a value
NonMissing(series) == SelectSeq(series, LAMBDA e : e.x # NaN)

\* the ids of the rows whose value is missing
MissingIds(series) == {series[j].id : j \in {i \in 1..Len(series) : series[i].x = NaN}}

\* lower and upper are the bounds that the method takes of the values vs
BoundsOf(method, vs, lower, upper) ==
  /\ method = "Z" => IsThreeSigma(vs, lower, upper)
  /\ method = "IQR" =>
        /\ IsQuartile(vs, 1, TukeyQ1(lower, upper))
        /\ IsQuartile(vs, 3, TukeyQ3(lower, upper))

\* C26: the missing values of a column are left out of the mean, the
\* standard deviation and the quartiles, so that the bounds are those of the
\* values that are present, and out of the minimum and the maximum that
\* stand in for a missing side of a custom interval; under no method is a
\* missing value an outlier; compress leaves it missing and remove leaves
\* its row in the table
C26_MissingValues ==
  /\ (call.fn \in {"outliers_z_score", "outliers_IQR"} /\ ret.returned) =>
        /\ NonMissing(Series(df, call.columns[1])) # <<>> =>
              BoundsOf(IF call.fn = "outliers_IQR" THEN "IQR" ELSE "Z",
                       NonMissing(Series(df, call.columns[1])),
                       ret.value.lower, ret.value.upper)
        /\ IndexOf(ret.value.outliers)
              \cap MissingIds(Series(df, call.columns[1])) = {}
  /\ \A k \in Passes :
        /\ NonMissing(trace[k].before) # <<>> =>
              BoundsOf(StripUpper(trace[k].using), NonMissing(trace[k].before),
                       trace[k].lower, trace[k].upper)
        /\ (StripUpper(trace[k].using) = "CUSTOM" /\ call.ci[1] = None
              /\ NonMissing(trace[k].before) # <<>>) =>
              /\ trace[k].lower # NaN
              /\ \A j \in 1..Len(NonMissing(trace[k].before)) :
                    Le(trace[k].lower, NonMissing(trace[k].before)[j].x)
        /\ (StripUpper(trace[k].using) = "CUSTOM" /\ call.ci[2] = None
              /\ NonMissing(trace[k].before) # <<>>) =>
              /\ trace[k].upper # NaN
              /\ \A j \in 1..Len(NonMissing(trace[k].before)) :
                    Le(NonMissing(trace[k].before)[j].x, trace[k].upper)
        /\ IndexOf(trace[k].outliers) \cap MissingIds(trace[k].before) = {}
        /\ \A j \in 1..Len(trace[k].outliers) : trace[k].outliers[j].x # NaN
        /\ MissingIds(trace[k].before) = MissingIds(trace[k].after)

\* a pass with the IQR method has removed an outlier of a column that has a
\* missing value, and the row of the missing value is still there
C26_Witness ==
  /\ call.fn = "handle_outliers" /\ call.action = "remove" /\ err = "none"
  /\ Len(trace) = 1 /\ trace[1].using = "IQR"
  /\ trace[1].outliers # <<>>
  /\ MissingIds(trace[1].before) # {}
  /\ Len(trace[1].after) < Len(trace[1].before)
  /\ MissingIds(trace[1].after) # {}

\* the rows whose value the pass has changed
ChangedIds(before, after) ==
  {before[j].id : j \in {i \in 1..Len(before) : before[i].x # after[i].x}}

\* C27: with action compress and a lower bound that is not above the upper
\* bound (the Z method, the IQR method, a custom interval in order), the
\* rows whose value a pass changes are exactly the outlier rows that the
\* pass reports
C27_ClipIsReported ==
  \A k \in Passes :
     (call.action = "compress" /\ ~Gt(trace[k].lower, trace[k].upper)) =>
        /\ Len(trace[k].after) = Len(trace[k].before)
        /\ ChangedIds(trace[k].before, trace[k].after) = IndexOf(trace[k].outliers)
        /\ out[k].total = Cardinality(ChangedIds(trace[k].before, trace[k].after))

\* a compressing pass with the IQR method has changed a value below the
\* lower fence and a value above the upper fence
C27_Witness ==
  /\ call.fn = "handle_outliers" /\ call.action = "compress" /\ err = "none"
  /\ Len(trace) >= 1 /\ trace[1].using = "IQR"
  /\ \E i \in 1..Len(trace[1].before) : \E j \in 1..Len(trace[1].before) :
        /\ Lt(trace[1].before[i].x, trace[1].lower)
        /\ Gt(trace[1].before[j].x, trace[1].upper)
        /\ trace[1].after[i].x = trace[1].lower
        /\ trace[1].after[j].x = trace[1].upper

\* the pass p has the bounds, the outliers and the snapshots of the pass q
SamePass(p, q) ==
  /\ p.column = q.column
  /\ p.lower = q.lower /\ p.upper = q.upper
  /\ p.outliers = q.outliers
  /\ p.before = q.before /\ p.after = q.after

C29_ReturnFirstPrintAll ==
  (call.fn \in {"outliers_z_score", "outliers_IQR"} /\ call.columns[1] \in ColSet) =>
     /\ call.mode = "return" =>
           /\ ret.returned /\ err = "none" /\ out = <<>>
           /\ call.fn = "outliers_z_score" =>
                 ret.value = ZOf(Series(df, call.columns[1]))
           /\ call.fn = "outliers_IQR" =>
                 ret.value = IQROf(Series(df, call.columns[1]))
     /\ call.mode = "print" =>
           /\ ~ret.returned
           /\ \A i \in 1..Len(out) : out[i].column = call.columns[i]
           /\ IF \A i \in 1..Len(call.columns) : call.columns[i] \in ColSet
              THEN Len(out) = Len(call.columns) /\ err = "none"
              ELSE err = "KeyError"

\* a call in return mode has returned the outliers of column a and has not
\* looked at the second column of its list, which the table lacks
C29_Witness ==
  /\ call.fn = "outliers_IQR" /\ call.mode = "return"
  /\ call.columns = <<"a", "zz">>
  /\ ret.returned /\ err = "none" /\ out = <<>>
  /\ ret.value.outliers # <<>>

\* the pass worked with a custom interval that was given
CustomPass(k) ==
  StripUpper(trace[k].using) = "CUSTOM" /\ call.ci # <<None, None>>

\* C30: in a pass with a custom interval whose lower bound is not above its
\* upper bound no row is both below lower and above upper: every row
\* identity is in the outlier set at most once, and the total that is
\* printed is at most the number of rows of the column
C30_CustomDisjoint ==
  \A k \in Passes :
     (CustomPass(k) /\ ~Gt(trace[k].lower, trace[k].upper)) =>
        /\ \A i \in 1..Len(trace[k].outliers) : \A j \in 1..Len(trace[k].outliers) :
              trace[k].outliers[i].id = trace[k].outliers[j].id => i = j
        /\ \A j \in 1..Len(trace[k].before) :
              ~(Lt(trace[k].before[j].x, trace[k].lower)
                  /\ Gt(trace[k].before[j].x, trace[k].upper))
        /\ out[k].total = Cardinality(IndexOf(trace[k].outliers))
        /\ out[k].total <= Len(trace[k].before)

\* the interval (1, 1) has found outliers below it and above it
C30_Witness ==
  /\ call.fn = "handle_outliers" /\ call.using = "custom"
  /\ call.ci = <<Num(1), Num(1)>> /\ err = "none"
  /\ Len(trace) >= 1
  /\ \E i \in 1..Len(trace[1].outliers) : Lt(trace[1].outliers[i].x, Num(1))
  /\ \E i \in 1..Len(trace[1].outliers) : Gt(trace[1].outliers[i].x, Num(1))
  /\ \E i \in 1..Len(trace[1].before) : trace[1].before[i].x = Num(1)

====
